---------------------------- MODULE Spec2Model ----------------------------
(***************************************************************************)
(* A model of the two IAW notebooks: keyword-search.ipynb (the search      *)
(* pipeline) and annotation-table.ipynb (the single-set pipeline,          *)
(* src/unnamed/part_000).                                                  *)
(*                                                                         *)
(* Python strings are sequences of one-character strings, so that lower(), *)
(* the substring test `in`, split() and join() are computed and not        *)
(* assumed.  Images are arrays row -> column -> channel -> 0..255.         *)
(***************************************************************************)
EXTENDS Integers, Sequences, FiniteSets, TLC

VARIABLES
    pc,               \* position of the running cell / function
    keyword,          \* the search keyword (a string)
    results,          \* the list `results` of the search notebook
    http_log,         \* every requests.get issued so far, in order
    image_sets,       \* response.json() of the image-sets listing
    annotation_sets,  \* response.json() of the current annotation-sets listing
    is_i,             \* index of the current image_set in image_sets
    as_i,             \* index of the current annotation_set in annotation_sets
    pipeline,         \* "search" | "single": which notebook is running
    annotations,      \* the list `annotations` of the single-set notebook
    image,            \* the global `image` of the single-set notebook
    images,           \* the dict `images` of the search notebook
    table_data,       \* the dict of the five column lists
    raised,           \* the exception that ended the run, or "none"
    img_i,            \* loop index of the image loading cell
    row_i,            \* loop index of the table builder cell
    arg,              \* the arguments of the pure function under test
    ret               \* what the function under test returned / raised

vars == << pc, keyword, results, http_log, image_sets, annotation_sets, is_i,
           as_i, pipeline, annotations, image, images, table_data, raised,
           img_i, row_i, arg, ret >>

searchVars == << keyword, results, http_log, image_sets, annotation_sets,
                 is_i, as_i >>
tableVars  == << pipeline, annotations, image, images, table_data, raised,
                 img_i, row_i >>
funVars    == << arg, ret >>

(***************************************************************************)
(* Bounds of the model.                                                    *)
(***************************************************************************)
MaxValues == 1           \* values per title / tag field in the filter check
ImgSize == 3             \* height and width of the full-size images
MaxResults == 2          \* annotations handed to the image loader / table builder
AnnotationsPerSet == 2   \* annotations an annotation set holds
NumImageSets == 2        \* image sets the collection can list
NumAnnotationSets == 2   \* annotation sets an image set can list

(***************************************************************************)
(* Python strings.                                                         *)
(***************************************************************************)
UpperCase == << "A", "B", "D", "E", "O", "R" >>
LowerCase == << "a", "b", "d", "e", "o", "r" >>

\* str.lower() on one character: cased letters map to lower case, anything
\* else is unchanged.
LowerChar(c) ==
    IF \E i \in 1..Len(UpperCase) : UpperCase[i] = c
    THEN LowerCase[CHOOSE i \in 1..Len(UpperCase) : UpperCase[i] = c]
    ELSE c

lower(s) == [i \in 1..Len(s) |-> LowerChar(s[i])]

\* Python's `sub in s` on strings.
StrIn(sub, s) ==
    \E i \in 0..(Len(s) - Len(sub)) : SubSeq(s, i + 1, i + Len(sub)) = sub

RECURSIVE Join(_, _)
\* sep.join(parts)
Join(sep, parts) ==
    IF Len(parts) = 0 THEN << >>
    ELSE IF Len(parts) = 1 THEN parts[1]
    ELSE parts[1] \o sep \o Join(sep, Tail(parts))

(***************************************************************************)
(* annotation_contains_keyword (keyword-search.ipynb).  An annotation's    *)
(* `fields` is a function whose domain is the set of field names present;  *)
(* fields["title"] stands for fields['title']['en']['values'] and          *)
(* fields["tag"] for fields['tag']['en']['values'].                        *)
(***************************************************************************)
RECURSIVE TitleLoop(_, _, _)
\* for title_value in values: if keyword.lower() in title_value.lower(): return True
TitleLoop(values, kw, i) ==
    IF i > Len(values) THEN FALSE
    ELSE IF StrIn(lower(kw), lower(values[i])) THEN TRUE
    ELSE TitleLoop(values, kw, i + 1)

RECURSIVE TagLoop(_, _, _)
\* for tag_value in values: if keyword.lower() in tag_value['term_label'].lower(): return True
TagLoop(values, kw, i) ==
    IF i > Len(values) THEN FALSE
    ELSE IF StrIn(lower(kw), lower(values[i].term_label)) THEN TRUE
    ELSE TagLoop(values, kw, i + 1)

\* A plausible slip: the keyword is not lower-cased before the test.
annotation_contains_keyword_nolower(annotation, kw) ==
    LET fields == annotation.fields IN
    \/ /\ "title" \in DOMAIN fields
       /\ \E i \in 1..Len(fields["title"]) : StrIn(kw, lower(fields["title"][i]))
    \/ /\ "tag" \in DOMAIN fields
       /\ \E i \in 1..Len(fields["tag"]) :
              StrIn(kw, lower(fields["tag"][i].term_label))

annotation_contains_keyword(annotation, kw) ==
    LET fields == annotation.fields IN
    IF "title" \in DOMAIN fields /\ TitleLoop(fields["title"], kw, 1) THEN TRUE
    ELSE IF "tag" \in DOMAIN fields /\ TagLoop(fields["tag"], kw, 1) THEN TRUE
    ELSE FALSE

(***************************************************************************)
(* extract_polygon_points (both notebooks).  A Python exception is a       *)
(* record [raised |-> <its type>]; "none" means the call returned.         *)
(***************************************************************************)
Digits == << "0", "1", "2", "3", "4", "5", "6", "7", "8", "9" >>

IsDigit(c) == \E i \in 1..Len(Digits) : Digits[i] = c

DigitVal(c) == (CHOOSE i \in 1..Len(Digits) : Digits[i] = c) - 1

RECURSIVE Split(_, _)
\* s.split(sep) for a one-character separator: every field, empty ones too.
Split(s, sep) ==
    IF \A i \in 1..Len(s) : s[i] # sep THEN << s >>
    ELSE LET k == CHOOSE i \in 1..Len(s) :
                      /\ s[i] = sep
                      /\ \A j \in 1..(i - 1) : s[j] # sep
         IN  << SubSeq(s, 1, k - 1) >> \o Split(SubSeq(s, k + 1, Len(s)), sep)

RECURSIVE DigitsVal(_)
\* the value of a run of decimal digits ("" counts 0)
DigitsVal(s) ==
    IF Len(s) = 0 THEN 0
    ELSE 10 * DigitsVal(SubSeq(s, 1, Len(s) - 1)) + DigitVal(s[Len(s)])

AllDigits(s) == \A i \in 1..Len(s) : IsDigit(s[i])

\* float(s) accepts [sign] digits [. digits] with a digit on at least one
\* side of the point; the selectors of the model use no exponent form.
IsFloat(s) ==
    LET body  == IF Len(s) > 0 /\ s[1] \in {"-", "+"} THEN Tail(s) ELSE s
        parts == Split(body, ".")
    IN  /\ Len(parts) \in {1, 2}
        /\ \A i \in 1..Len(parts) : AllDigits(parts[i])
        /\ \E i \in 1..Len(parts) : Len(parts[i]) > 0

\* int(float(s)): truncation towards zero
IntOfFloat(s) ==
    LET neg   == Len(s) > 0 /\ s[1] = "-"
        body  == IF Len(s) > 0 /\ s[1] \in {"-", "+"} THEN Tail(s) ELSE s
        whole == DigitsVal(Split(body, ".")[1])
    IN  IF neg THEN 0 - whole ELSE whole

RECURSIVE PointLoop(_, _, _)
\* for point in tokens: x, y = point.split(','); points.append([int(float(x)), int(float(y))])
PointLoop(tokens, i, points) ==
    IF i > Len(tokens) THEN [raised |-> "none", points |-> points]
    ELSE LET xy == Split(tokens[i], ",") IN
         IF Len(xy) # 2 THEN [raised |-> "ValueError", points |-> << >>]
         ELSE IF ~IsFloat(xy[1]) \/ ~IsFloat(xy[2])
         THEN [raised |-> "ValueError", points |-> << >>]
         ELSE PointLoop(tokens, i + 1,
                        Append(points, << IntOfFloat(xy[1]), IntOfFloat(xy[2]) >>))

extract_polygon_points(selector) ==
    LET quoted == Split(selector, "\"") IN
    IF Len(quoted) < 2 THEN [raised |-> "IndexError", points |-> << >>]
    ELSE PointLoop(Split(quoted[2], " "), 1, << >>)

(***************************************************************************)
(* Images.  A decoded image is [isNone, h, w, px]: px[y + 1][x + 1][c] is  *)
(* channel c of the pixel in row y, column x (numpy's image[y, x, c - 1]). *)
(* cv2.imdecode returns None for bytes that are no image: NoneImage.       *)
(***************************************************************************)
NoneImage == [isNone |-> TRUE, h |-> 0, w |-> 0, px |-> << >>]

channel_count == 3       \* image.shape[2] of an image decoded with cv2.IMREAD_COLOR

MkImage(h, w, px) == [isNone |-> FALSE, h |-> h, w |-> w, px |-> px]

\* an h x w image whose every entry is v
Uniform(h, w, v) ==
    MkImage(h, w, [r \in 1..h |-> [k \in 1..w |-> [c \in 1..channel_count |-> v]]])

Min(S) == CHOOSE m \in S : \A n \in S : m <= n
Max(S) == CHOOSE m \in S : \A n \in S : m >= n

RECURSIVE BitAnd(_, _)
\* a & b on unsigned integers
BitAnd(a, b) ==
    IF a = 0 \/ b = 0 THEN 0
    ELSE (a % 2) * (b % 2) + 2 * BitAnd(a \div 2, b \div 2)

\* The polygon's edges: vertex i to vertex i + 1, the last back to the first.
EdgeEnd(points, i) == points[(i % Len(points)) + 1]

OnEdge(x, y, a, b) ==
    /\ (b[1] - a[1]) * (y - a[2]) = (b[2] - a[2]) * (x - a[1])
    /\ x >= Min({a[1], b[1]}) /\ x <= Max({a[1], b[1]})
    /\ y >= Min({a[2], b[2]}) /\ y <= Max({a[2], b[2]})

\* The edge a-b crosses the horizontal ray going right from (x, y).
Crosses(x, y, a, b) ==
    LET dy == b[2] - a[2] IN
    /\ (a[2] > y) # (b[2] > y)
    /\ IF dy > 0
       THEN (x - a[1]) * dy < (y - a[2]) * (b[1] - a[1])
       ELSE (x - a[1]) * dy > (y - a[2]) * (b[1] - a[1])

\* cv2.fillPoly paints the pixels on the polygon's outline and those inside
\* it; pixels outside the mask's bounds are clipped away.  The outline of a
\* slanted edge is taken as the grid points exactly on it.
InPolygon(x, y, points) ==
    \/ \E i \in 1..Len(points) : OnEdge(x, y, points[i], EdgeEnd(points, i))
    \/ Cardinality({i \in 1..Len(points) :
                       Crosses(x, y, points[i], EdgeEnd(points, i))}) % 2 = 1

\* mask = np.zeros(image.shape); cv2.fillPoly(mask, roi_corners, (255,) * channel_count)
fillPoly(img, points) ==
    MkImage(img.h, img.w,
            [r \in 1..img.h |-> [k \in 1..img.w |-> [c \in 1..channel_count |->
                IF InPolygon(k - 1, r - 1, points) THEN 255 ELSE 0]]])

\* cv2.bitwise_and(image, mask)
bitwise_and(img, mask) ==
    MkImage(img.h, img.w,
            [r \in 1..img.h |-> [k \in 1..img.w |-> [c \in 1..channel_count |->
                BitAnd(img.px[r][k][c], mask.px[r][k][c])]]])

\* y, x, _ = np.where(masked_image != 0): the rows / columns of the non-zero
\* entries (np.min and np.max only need them as sets)
WhereY(img) ==
    {y \in 0..(img.h - 1) : \E x \in 0..(img.w - 1) :
        \E c \in 1..channel_count : img.px[y + 1][x + 1][c] # 0}
WhereX(img) ==
    {x \in 0..(img.w - 1) : \E y \in 0..(img.h - 1) :
        \E c \in 1..channel_count : img.px[y + 1][x + 1][c] # 0}

\* img[y0:y1, x0:x1] for 0 <= y0, y1 <= h and 0 <= x0, x1 <= w: rows y0..y1-1
\* and columns x0..x1-1; an empty range gives a 0 extent.
Slice(img, y0, y1, x0, x1) ==
    LET hh == IF y1 > y0 THEN y1 - y0 ELSE 0
        ww == IF x1 > x0 THEN x1 - x0 ELSE 0
    IN  [isNone |-> FALSE, h |-> hh, w |-> ww,
         px |-> [r \in 1..hh |-> [k \in 1..ww |-> img.px[y0 + r][x0 + k]]]]

\* A plausible change: the slice takes the last row and column too.
crop_image_inclusive(img, points) ==
    IF img.isNone THEN [raised |-> "AttributeError", image |-> NoneImage]
    ELSE LET masked_image == bitwise_and(img, fillPoly(img, points))
             y == WhereY(masked_image)
             x == WhereX(masked_image)
         IN  IF y = {} THEN [raised |-> "ValueError", image |-> NoneImage]
             ELSE [raised |-> "none",
                   image |-> Slice(masked_image, Min(y), Max(y) + 1,
                                   Min(x), Max(x) + 1)]

\* crop_image(image, points).  image.shape of None raises AttributeError;
\* np.min of an empty array raises ValueError.
crop_image(img, points) ==
    IF img.isNone THEN [raised |-> "AttributeError", image |-> NoneImage]
    ELSE LET masked_image == bitwise_and(img, fillPoly(img, points))
             y == WhereY(masked_image)
             x == WhereX(masked_image)
         IN  IF y = {} THEN [raised |-> "ValueError", image |-> NoneImage]
             ELSE [raised |-> "none",
                   image |-> Slice(masked_image, Min(y), Max(y), Min(x), Max(x))]

\* image_to_html(image, max_width): cv2.imencode refuses an empty image
\* (cv2.error); otherwise the <img> tag carrying the encoded image.
image_to_html(img, max_width) ==
    IF img.h = 0 \/ img.w = 0 THEN [raised |-> "cv2.error", html |-> << >>]
    ELSE [raised |-> "none", html |-> << "<img>", max_width, img >>]

(***************************************************************************)
(* The data the API serves in the model: strings, selectors, annotations   *)
(* and full-size images.                                                   *)
(***************************************************************************)
SvgOpen ==
    << "<", "s", "v", "g", ">", "<", "p", "o", "l", "y", "g", "o",
       "n", " ", "p", "o", "i", "n", "t", "s", "=", "\"" >>

SvgClose ==
    << "\"", ">", "<", "/", "p", "o", "l", "y", "g", "o", "n", ">",
       "<", "/", "s", "v", "g", ">" >>

\* a selector that is no polygon
RectSelector ==
    << "<", "s", "v", "g", ">", "<", "r", "e", "c", "t", " ", "x",
       "=", "\"", "0", "\"", ">", "<", "/", "r", "e", "c", "t", ">",
       "<", "/", "s", "v", "g", ">" >>

PolygonTag ==
    << "<", "p", "o", "l", "y", "g", "o", "n" >>

Br ==
    << "<", "b", "r", ">" >>

SquarePoints ==
    << "0", ",", "0", " ", "2", ",", "0", " ", "2", ",", "2", " ",
       "0", ",", "2" >>

OutsidePoints ==
    << "7", ",", "7", " ", "9", ",", "7", " ", "9", ",", "9" >>

SinglePoints ==
    << "1", ",", "1", " ", "1", ",", "1", " ", "1", ",", "1" >>

MalformedPoints ==
    << "a", ",", "b", " ", "1", ",", "1" >>

FloatPoints ==
    << "0", ".", "9", ",", "0", ".", "2", " ", "2", ".", "7", ",",
       "0", ".", "5", " ", "0", ".", "1", ",", "2", ".", "9" >>

RedRobe ==
    << "R", "e", "d", " ", "R", "o", "b", "e" >>

ROBE ==
    << "R", "O", "B", "E" >>

robe ==
    << "r", "o", "b", "e" >>

Buddha ==
    << "B", "u", "d", "d", "h", "a" >>

Bead ==
    << "b", "e", "a", "d" >>

Ob ==
    << "o", "b" >>

Red ==
    << "r", "e", "d" >>

Fine ==
    << "f", "i", "n", "e" >>

Old ==
    << "o", "l", "d" >>

Bud ==
    << "b", "u", "d" >>

\* <svg><polygon points="..."></polygon></svg>
PolygonSelector(points) == SvgOpen \o points \o SvgClose

BoundedSeq(S, n) == UNION {[1..k -> S] : k \in 0..n}

\* fields holding the fields named in `present`, with the given values
MkFields(present, title, tag, note, line_color) ==
    [f \in present |->
        CASE f = "title" -> title
          [] f = "tag" -> [i \in 1..Len(tag) |-> [term_label |-> tag[i]]]
          [] f = "note" -> note
          [] OTHER -> line_color]

MkAnnotation(id, image_id, selector, fields) ==
    [id |-> id, image_id |-> image_id, selector |-> selector, fields |-> fields]

Pool ==
    << MkAnnotation(1, 1, PolygonSelector(SquarePoints),
                    MkFields({"title", "tag", "note", "line_color"},
                             << RedRobe >>, << Buddha >>, << Fine, Old >>, << Red >>)),
       MkAnnotation(2, 2, RectSelector,
                    MkFields({"tag"}, << >>, << Bead, ROBE >>, << >>, << >>)),
       MkAnnotation(3, 1, PolygonSelector(OutsidePoints),
                    MkFields({"title", "note"}, << Buddha >>, << >>, << robe >>, << >>)),
       MkAnnotation(4, 2, PolygonSelector(MalformedPoints),
                    MkFields({}, << >>, << >>, << >>, << >>)),
       MkAnnotation(5, 1, PolygonSelector(SinglePoints),
                    MkFields({"title", "line_color"}, << robe >>, << >>, << >>, << Red >>)),
       MkAnnotation(6, 2, PolygonSelector(FloatPoints),
                    MkFields({"title", "tag"},
                             << Old, RedRobe >>, << Buddha, Bead >>, << >>, << >>)) >>

PoolSet == {Pool[i] : i \in 1..Len(Pool)}

Keywords == {robe, ROBE, Bud, Ob, Bead, << >>}

\* The full-size image of an image id: every pixel non-zero, and different
\* for different ids.
FullImage(image_id) ==
    MkImage(ImgSize, ImgSize,
            [r \in 1..ImgSize |-> [k \in 1..ImgSize |-> [c \in 1..channel_count |->
                255 - image_id - c]]])

(***************************************************************************)
(* The variables a run does not use keep these values.                     *)
(***************************************************************************)
IdleSearch ==
    /\ keyword = << >> /\ results = << >> /\ http_log = << >>
    /\ image_sets = << >> /\ annotation_sets = << >> /\ is_i = 0 /\ as_i = 0

IdleTable ==
    /\ pipeline = "none" /\ annotations = << >> /\ image = NoneImage
    /\ images = << >> /\ raised = "none" /\ img_i = 0 /\ row_i = 0
    /\ table_data = << >>

IdleFun == arg = << >> /\ ret = << >>

(***************************************************************************)
(* annotation_contains_keyword applied to bounded annotations.             *)
(***************************************************************************)
Words == {RedRobe, ROBE, Buddha, << >>}

KwAnnotations ==
    {MkAnnotation(0, 1, RectSelector, MkFields(present, title, tag, << robe >>, << >>)) :
        present \in SUBSET {"title", "tag", "note"},
        title \in BoundedSeq(Words, MaxValues),
        tag \in BoundedSeq(Words, MaxValues)}

InitKeyword ==
    /\ pc = "kw_call"
    /\ arg \in [annotation : KwAnnotations, keyword : Keywords]
    /\ ret = << >>
    /\ IdleSearch /\ IdleTable

CallContainsKeyword ==
    /\ pc = "kw_call"
    /\ ret' = annotation_contains_keyword(arg.annotation, arg.keyword)
    /\ pc' = "kw_done"
    /\ UNCHANGED << arg, searchVars, tableVars >>

SpecKeyword == InitKeyword /\ [][CallContainsKeyword]_vars

(***************************************************************************)
(* crop_image applied to bounded images and polygons.                      *)
(***************************************************************************)
White == Uniform(ImgSize, ImgSize, 255)
Black == Uniform(ImgSize, ImgSize, 0)
\* non-zero in the first channel only
Dim ==
    MkImage(ImgSize, ImgSize,
            [r \in 1..ImgSize |-> [k \in 1..ImgSize |-> [c \in 1..channel_count |->
                IF c = 1 THEN 1 ELSE 0]]])
\* white but for row y (column x), which is zero
ZeroRow(y) ==
    MkImage(ImgSize, ImgSize,
            [r \in 1..ImgSize |-> [k \in 1..ImgSize |-> [c \in 1..channel_count |->
                IF r - 1 = y THEN 0 ELSE 255]]])
ZeroCol(x) ==
    MkImage(ImgSize, ImgSize,
            [r \in 1..ImgSize |-> [k \in 1..ImgSize |-> [c \in 1..channel_count |->
                IF k - 1 = x THEN 0 ELSE 255]]])

CropImages ==
    {White, Black, Dim} \cup {ZeroRow(y) : y \in 0..(ImgSize - 1)}
                        \cup {ZeroCol(x) : x \in 0..(ImgSize - 1)}

Rect(x0, y0, x1, y1) == << << x0, y0 >>, << x1, y0 >>, << x1, y1 >>, << x0, y1 >> >>

\* axis-aligned rectangles, degenerate ones and ones (partly) outside the
\* image included
Rects ==
    {Rect(x0, y0, x1, y1) : x0 \in (0 - 1)..ImgSize, x1 \in (0 - 1)..ImgSize,
                            y0 \in (0 - 1)..ImgSize, y1 \in (0 - 1)..ImgSize}

Triangles ==
    [1..3 -> (0..(ImgSize - 1)) \X (0..(ImgSize - 1))]

InitCrop ==
    /\ pc = "crop_call"
    /\ \/ arg \in [image : CropImages, points : Rects]
       \/ arg \in [image : {White}, points : Triangles]
       \/ arg = [image |-> Uniform(20, 20, 255),
                 points |-> Rect(0, 0, 10, 10)]
    /\ ret = << >>
    /\ IdleSearch /\ IdleTable

CallCropImage ==
    /\ pc = "crop_call"
    /\ ret' = crop_image(arg.image, arg.points)
    /\ pc' = "crop_done"
    /\ UNCHANGED << arg, searchVars, tableVars >>

SpecCrop == InitCrop /\ [][CallCropImage]_vars

(***************************************************************************)
(* extract_polygon_points as a pure function: the selector is drawn from   *)
(* the well-formed selectors of the documented format (coordinate pairs    *)
(* separated by a space, with or without a space before the closing quote) *)
(* and from a set of malformed ones.  A well-formed argument carries the   *)
(* tokens it was written from, each with the integer pair it denotes.      *)
(***************************************************************************)
MaxPoints == 3

Token(text, x, y) == [text |-> text, x |-> x, y |-> y]

CoordinateTokens ==
    { Token(<< "0", ",", "0" >>, 0, 0),
      Token(<< "2", ",", "0" >>, 2, 0),
      Token(<< "1", ".", "9", ",", "2" >>, 1, 2),
      Token(<< "-", "1", ".", "5", ",", "7" >>, -1, 7) }

TokenSeqs == UNION {[1..k -> CoordinateTokens] : k \in 1..MaxPoints}

\* what may stand between the last pair and the closing quote
Trailers == { << >>, << " " >> }

TextOf(tokens) == Join(<< " " >>, [i \in 1..Len(tokens) |-> tokens[i].text])

ValidArgs ==
    { [kind |-> "valid", tokens |-> t,
       selector |-> PolygonSelector(TextOf(t) \o trailer)] :
          t \in TokenSeqs, trailer \in Trailers }

\* no quote-delimited attribute at all
NoQuoteSelector ==
    << "<", "s", "v", "g", ">", "<", "p", "o", "l", "y", "g", "o",
       "n", ">", "<", "/", "p", "o", "l", "y", "g", "o", "n", ">",
       "<", "/", "s", "v", "g", ">" >>

\* a quoted attribute other than points comes first
OtherAttributeSelector ==
    << "<", "s", "v", "g", ">", "<", "p", "o", "l", "y", "g", "o",
       "n", " ", "i", "d", "=", "\"", "p", "\"", " ", "p", "o", "i",
       "n", "t", "s", "=", "\"", "0", ",", "0", " ", "2", ",", "0",
       " ", "2", ",", "2", "\"", ">", "<", "/", "p", "o", "l", "y",
       "g", "o", "n", ">", "<", "/", "s", "v", "g", ">" >>

\* ... and its value reads like a coordinate pair
CoordinateLikeAttributeSelector ==
    << "<", "s", "v", "g", ">", "<", "p", "o", "l", "y", "g", "o",
       "n", " ", "i", "d", "=", "\"", "1", ",", "2", "\"", " ", "p",
       "o", "i", "n", "t", "s", "=", "\"", "0", ",", "0", " ", "2",
       ",", "0", " ", "2", ",", "2", "\"", ">", "<", "/", "p", "o",
       "l", "y", "g", "o", "n", ">", "<", "/", "s", "v", "g", ">" >>

\* the points value has no closing quote
UnterminatedSelector ==
    << "<", "s", "v", "g", ">", "<", "p", "o", "l", "y", "g", "o",
       "n", " ", "p", "o", "i", "n", "t", "s", "=", "\"", "0", ",",
       "0", " ", "2", ",", "0", " ", "2", ",", "2", ">", "<", "/",
       "p", "o", "l", "y", "g", "o", "n", ">", "<", "/", "s", "v",
       "g", ">" >>

\* ... and the selector ends inside the points value
TruncatedSelector ==
    << "<", "s", "v", "g", ">", "<", "p", "o", "l", "y", "g", "o",
       "n", " ", "p", "o", "i", "n", "t", "s", "=", "\"", "0", ",",
       "0", " ", "2", ",", "0", " ", "2", ",", "2" >>

\* a token without a comma
NoCommaSelector ==
    << "<", "s", "v", "g", ">", "<", "p", "o", "l", "y", "g", "o",
       "n", " ", "p", "o", "i", "n", "t", "s", "=", "\"", "0", ",",
       "0", " ", "2", " ", "2", ",", "2", "\"", ">", "<", "/", "p",
       "o", "l", "y", "g", "o", "n", ">", "<", "/", "s", "v", "g",
       ">" >>

\* a token with two commas
TwoCommaSelector ==
    << "<", "s", "v", "g", ">", "<", "p", "o", "l", "y", "g", "o",
       "n", " ", "p", "o", "i", "n", "t", "s", "=", "\"", "0", ",",
       "0", " ", "1", ",", "2", ",", "3", " ", "2", ",", "2", "\"",
       ">", "<", "/", "p", "o", "l", "y", "g", "o", "n", ">", "<",
       "/", "s", "v", "g", ">" >>

MalformedSelectors ==
    { NoQuoteSelector, OtherAttributeSelector, CoordinateLikeAttributeSelector,
      UnterminatedSelector, TruncatedSelector, NoCommaSelector,
      TwoCommaSelector, PolygonSelector(MalformedPoints) }

MalformedArgs ==
    { [kind |-> "malformed", tokens |-> << >>, selector |-> s] :
          s \in MalformedSelectors }

InitExtract ==
    /\ pc = "extract_call"
    /\ arg \in ValidArgs \cup MalformedArgs
    /\ ret = << >>
    /\ IdleSearch /\ IdleTable

CallExtractPolygonPoints ==
    /\ pc = "extract_call"
    /\ ret' = extract_polygon_points(arg.selector)
    /\ pc' = "extract_done"
    /\ UNCHANGED << arg, searchVars, tableVars >>

SpecExtract == InitExtract /\ [][CallExtractPolygonPoints]_vars

(***************************************************************************)
(* The keyword search traversal cell (keyword-search.ipynb).  A request is *)
(* logged as [url, status, body] (body: the listing of a 200 response, <<>> *)
(* for an error payload).  The status of every request is free;            *)
(* the collection lists up to NumImageSets image sets and an image set up  *)
(* to NumAnnotationSets annotation sets.                                   *)
(***************************************************************************)
Statuses == {200, 404}

Request(url, status, body) == [url |-> url, status |-> status, body |-> body]

ImageSetsUrl == << "collections", 11, "image-sets" >>
AnnotationSetsUrl(image_set_id) == << "image-sets", image_set_id, "annotation-sets" >>
AnnotationsUrl(annotation_set_id) == << "annotation-sets", annotation_set_id, "annotations" >>

\* what the API holds: the ids of the first k annotation sets of an image
\* set, and the annotations of an annotation set
AnnotationSetIds(image_set_id, k) ==
    [j \in 1..k |-> (image_set_id - 1) * NumAnnotationSets + j]

AnnotationsOf(annotation_set_id) ==
    [k \in 1..AnnotationsPerSet |-> Pool[((annotation_set_id + 2 * k) % Len(Pool)) + 1]]

SearchKeywords == {robe, ROBE, Bud}

InitSearch ==
    /\ pc = "get_image_sets"
    /\ keyword \in SearchKeywords
    /\ results = << >>
    /\ http_log = << >>
    /\ image_sets = << >> /\ annotation_sets = << >>
    /\ is_i = 0 /\ as_i = 0
    /\ IdleTable /\ IdleFun

\* A plausible slip: every annotation is appended, matching or not.
FilterLoop_nofilter(body, kw, i, acc) == acc \o body

RECURSIVE FilterLoop(_, _, _, _)
\* for annotation in annotations:
\*     if annotation_contains_keyword(annotation, keyword): results.append(annotation)
FilterLoop(body, kw, i, acc) ==
    IF i > Len(body) THEN acc
    ELSE FilterLoop(body, kw, i + 1,
                    IF annotation_contains_keyword(body[i], kw)
                    THEN Append(acc, body[i]) ELSE acc)

\* A plausible slip: leaving the loop instead of going to the next image set.
NextImageSet_break(i, sets) == [pc |-> "search_done", is_i |-> i, as_i |-> 0]

\* the `for image_set in image_sets` loop moves on, or the cell ends
NextImageSet(i, sets) ==
    IF i < Len(sets)
    THEN [pc |-> "get_annotation_sets", is_i |-> i + 1, as_i |-> 0]
    ELSE [pc |-> "search_done", is_i |-> i, as_i |-> 0]

\* the `for annotation_set in annotation_sets` loop moves on, or is left
NextAnnotationSet(i, sets, j, asets) ==
    IF j < Len(asets)
    THEN [pc |-> "get_annotations", is_i |-> i, as_i |-> j + 1]
    ELSE NextImageSet(i, sets)

\* response = requests.get('.../collections/11/image-sets')
GetImageSets ==
    /\ pc = "get_image_sets"
    /\ \E status \in Statuses, n \in 0..NumImageSets :
          LET body == IF status = 200 THEN [i \in 1..n |-> i] ELSE << >> IN
          /\ http_log' = Append(http_log, Request(ImageSetsUrl, status, body))
          /\ IF status = 200
             THEN /\ image_sets' = body
                  /\ LET nxt == NextImageSet(0, body) IN
                     pc' = nxt.pc /\ is_i' = nxt.is_i
             ELSE /\ pc' = "search_done"
                  /\ UNCHANGED << image_sets, is_i >>
    /\ UNCHANGED << keyword, results, annotation_sets, as_i, tableVars, funVars >>

\* response = requests.get('.../image-sets/{image_set_id}/annotation-sets')
GetAnnotationSets ==
    /\ pc = "get_annotation_sets"
    /\ \E status \in Statuses, n \in 0..NumAnnotationSets :
          LET image_set_id == image_sets[is_i]
              body == IF status = 200 THEN AnnotationSetIds(image_set_id, n) ELSE << >>
              nxt  == IF status = 200
                      THEN NextAnnotationSet(is_i, image_sets, 0, body)
                      ELSE NextImageSet(is_i, image_sets)
          IN  /\ http_log' = Append(http_log,
                                    Request(AnnotationSetsUrl(image_set_id), status, body))
              /\ annotation_sets' = IF status = 200 THEN body ELSE annotation_sets
              /\ pc' = nxt.pc /\ is_i' = nxt.is_i /\ as_i' = nxt.as_i
    /\ UNCHANGED << keyword, results, image_sets, tableVars, funVars >>

\* response = requests.get('.../annotation-sets/{annotation_set_id}/annotations')
\* and, on 200, the loop over the annotations
GetAnnotations ==
    /\ pc = "get_annotations"
    /\ \E status \in Statuses :
          LET annotation_set_id == annotation_sets[as_i]
              body == IF status = 200 THEN AnnotationsOf(annotation_set_id) ELSE << >>
              nxt  == NextAnnotationSet(is_i, image_sets, as_i, annotation_sets)
          IN  /\ http_log' = Append(http_log,
                                    Request(AnnotationsUrl(annotation_set_id), status, body))
              /\ results' = IF status = 200
                            THEN FilterLoop(body, keyword, 1, results)
                            ELSE results
              /\ pc' = nxt.pc /\ is_i' = nxt.is_i /\ as_i' = nxt.as_i
    /\ UNCHANGED << keyword, image_sets, annotation_sets, tableVars, funVars >>

NextSearch == GetImageSets \/ GetAnnotationSets \/ GetAnnotations

SpecSearch == InitSearch /\ [][NextSearch]_vars

(***************************************************************************)
(* The image loading cells and the table builder cells of both notebooks.  *)
(* The search notebook starts from the `results` of a traversal (matches   *)
(* of the keyword, in any order and number up to MaxResults); the          *)
(* single-set notebook from the `annotations` of one annotation set.       *)
(***************************************************************************)
ImageUrl(image_id) == << "images", image_id >>
InfoUrl(image_id) == << "iiif", image_id, "info.json" >>
JpegUrl(image_id) == << "iiif", image_id, "default.jpg" >>

EmptyTable ==
    [Image |-> << >>, Title |-> << >>, Tags |-> << >>, Notes |-> << >>,
     LineColor |-> << >>]

InitTable ==
    /\ \/ /\ pipeline = "search"
          /\ keyword \in SearchKeywords
          /\ results \in BoundedSeq({a \in PoolSet : annotation_contains_keyword(a, keyword)},
                                    MaxResults)
          /\ annotations = << >>
          /\ pc = "load_images"
       \/ /\ pipeline = "single"
          /\ keyword = << >>
          /\ results = << >>
          /\ annotations \in BoundedSeq(PoolSet, MaxResults)
          /\ pc = "load_image"
    /\ http_log = << >>
    /\ image_sets = << >> /\ annotation_sets = << >> /\ is_i = 0 /\ as_i = 0
    /\ image = NoneImage
    /\ images = << >>
    /\ table_data = EmptyTable
    /\ raised = "none"
    /\ img_i = 1 /\ row_i = 0
    /\ IdleFun

\* image = cv2.imdecode(np.frombuffer(response.content, ...)): the image, or
\* None when the bytes (an error page) are no image
load_image_from_url(image_id, status) ==
    IF status = 200 THEN FullImage(image_id) ELSE NoneImage

\* A plausible slip: the cache is not consulted and every match loads its image.
Cached_never(image_id, imgs) == FALSE

\* the negation of `if image_id not in images`
Cached(image_id, imgs) == image_id \in DOMAIN imgs

\* One iteration of `for annotation in results` of the image loading cell.
LoadImage ==
    /\ pc = "load_images"
    /\ img_i <= Len(results)
    /\ LET image_id == results[img_i].image_id IN
       IF Cached(image_id, images)
       THEN UNCHANGED << http_log, images >>
       ELSE \E s1 \in Statuses, s2 \in Statuses, s3 \in Statuses :
               LET r1 == Request(ImageUrl(image_id), s1, << >>)
                   r2 == Request(InfoUrl(image_id), s2, << >>)
                   r3 == Request(JpegUrl(image_id), s3, << >>)
               IN  IF s1 # 200
                   THEN /\ http_log' = http_log \o << r1 >>
                        /\ UNCHANGED images
                   ELSE IF s2 # 200
                   THEN /\ http_log' = http_log \o << r1, r2 >>
                        /\ UNCHANGED images
                   ELSE /\ http_log' = http_log \o << r1, r2, r3 >>
                        /\ images' = (image_id :> load_image_from_url(image_id, s3))
                                         @@ images
    /\ img_i' = img_i + 1
    /\ UNCHANGED << pc, keyword, results, image_sets, annotation_sets, is_i, as_i,
                    pipeline, annotations, image, table_data, raised, row_i, funVars >>

\* The image cells of the single-set notebook: info.json, then the JPEG of
\* the first image of the image set.  An error payload has no 'width'
\* (KeyError); image_to_html of an undecodable image fails in cv2.imencode.
LoadImageSingle ==
    /\ pc = "load_image"
    /\ \E s2 \in Statuses, s3 \in Statuses :
          LET r2 == Request(InfoUrl(1), s2, << >>)
              r3 == Request(JpegUrl(1), s3, << >>)
          IN  IF s2 # 200
              THEN /\ http_log' = http_log \o << r2 >>
                   /\ raised' = "KeyError" /\ pc' = "aborted"
                   /\ UNCHANGED image
              ELSE /\ http_log' = http_log \o << r2, r3 >>
                   /\ image' = load_image_from_url(1, s3)
                   /\ IF s3 # 200
                      THEN raised' = "cv2.error" /\ pc' = "aborted"
                      ELSE raised' = raised /\ pc' = "start_table"
    /\ UNCHANGED << keyword, results, image_sets, annotation_sets, is_i, as_i,
                    pipeline, annotations, images, table_data, img_i, row_i, funVars >>

\* The image loading loop of the search notebook is over.
EndLoadImages ==
    /\ pc = "load_images"
    /\ img_i > Len(results)
    /\ pc' = "start_table"
    /\ UNCHANGED << searchVars, pipeline, annotations, image, images, table_data,
                    raised, img_i, row_i, funVars >>

\* table_data = {'Image': [], 'Title': [], 'Tags': [], 'Notes': [], 'Line Color': []}
StartTable ==
    /\ pc = "start_table"
    /\ table_data' = EmptyTable
    /\ row_i' = 1
    /\ pc' = "build_table"
    /\ UNCHANGED << searchVars, pipeline, annotations, image, images, raised,
                    img_i, funVars >>

\* The Image cell of one annotation: the <img> of the cropped area, '' for a
\* selector that is no polygon, or the exception of the first call that fails.
ImageCell(annotation, img) ==
    IF StrIn(PolygonTag, annotation.selector)
    THEN LET ex == extract_polygon_points(annotation.selector) IN
         IF ex.raised # "none" THEN [raised |-> ex.raised, cell |-> << >>]
         ELSE LET cr == crop_image(img, ex.points) IN
              IF cr.raised # "none" THEN [raised |-> cr.raised, cell |-> << >>]
              ELSE LET h == image_to_html(cr.image, 250) IN
                   [raised |-> h.raised, cell |-> h.html]
    ELSE [raised |-> "none", cell |-> << >>]

\* A plausible slip: an absent field is rendered as str(None).
FieldCell_absent_none(fields, name) ==
    IF name \in DOMAIN fields
    THEN IF name = "tag"
         THEN Join(Br, [i \in 1..Len(fields[name]) |-> fields[name][i].term_label])
         ELSE Join(Br, fields[name])
    ELSE << "N", "o", "n", "e" >>

\* if name in fields: '<br>'.join(...) else ''
FieldCell(fields, name) ==
    IF name \in DOMAIN fields
    THEN IF name = "tag"
         THEN Join(Br, [i \in 1..Len(fields[name]) |-> fields[name][i].term_label])
         ELSE Join(Br, fields[name])
    ELSE << >>

AppendFields(td, fields) ==
    [td EXCEPT !.Title = Append(@, FieldCell(fields, "title")),
               !.Tags = Append(@, FieldCell(fields, "tag")),
               !.Notes = Append(@, FieldCell(fields, "note")),
               !.LineColor = Append(@, FieldCell(fields, "line_color"))]

\* A plausible slip: the Image column gets its cell before the crop is made.
TableRow_append_first(td, annotation, img) ==
    LET ic == ImageCell(annotation, img)
        td1 == [td EXCEPT !.Image = Append(@, ic.cell)]
    IN  IF ic.raised # "none" THEN [raised |-> ic.raised, table_data |-> td1]
        ELSE [raised |-> "none", table_data |-> AppendFields(td1, annotation.fields)]

\* A plausible slip: list.insert(0, ...) in place of list.append(...).
TableRow_prepend(td, annotation, img) ==
    LET ic == ImageCell(annotation, img) IN
    IF ic.raised # "none" THEN [raised |-> ic.raised, table_data |-> td]
    ELSE [raised |-> "none",
          table_data |->
             [Image |-> << ic.cell >> \o td.Image,
              Title |-> << FieldCell(annotation.fields, "title") >> \o td.Title,
              Tags |-> << FieldCell(annotation.fields, "tag") >> \o td.Tags,
              Notes |-> << FieldCell(annotation.fields, "note") >> \o td.Notes,
              LineColor |-> << FieldCell(annotation.fields, "line_color") >>
                               \o td.LineColor]]

\* The body of the table loop for one annotation and its image: the five
\* appends, or the exception raised before the first of them.
TableRow(td, annotation, img) ==
    LET ic == ImageCell(annotation, img) IN
    IF ic.raised # "none" THEN [raised |-> ic.raised, table_data |-> td]
    ELSE [raised |-> "none",
          table_data |-> AppendFields([td EXCEPT !.Image = Append(@, ic.cell)],
                                      annotation.fields)]

\* One iteration of `for annotation in results` of the search table cell.
TableRowSearch ==
    /\ pc = "build_table" /\ pipeline = "search"
    /\ row_i <= Len(results)
    /\ LET annotation == results[row_i] IN
       IF annotation.image_id \notin DOMAIN images
       THEN /\ raised' = "KeyError" /\ pc' = "aborted"
            /\ UNCHANGED << table_data, row_i >>
       ELSE IF images[annotation.image_id].isNone
       THEN /\ row_i' = row_i + 1
            /\ UNCHANGED << table_data, raised, pc >>
       ELSE LET r == TableRow(table_data, annotation, images[annotation.image_id]) IN
            /\ table_data' = r.table_data
            /\ raised' = r.raised
            /\ IF r.raised # "none"
               THEN pc' = "aborted" /\ row_i' = row_i
               ELSE pc' = pc /\ row_i' = row_i + 1
    /\ UNCHANGED << searchVars, pipeline, annotations, image, images, img_i, funVars >>

\* One iteration of `for annotation in annotations` of the single-set table cell.
TableRowSingle ==
    /\ pc = "build_table" /\ pipeline = "single"
    /\ row_i <= Len(annotations)
    /\ LET r == TableRow(table_data, annotations[row_i], image) IN
       /\ table_data' = r.table_data
       /\ raised' = r.raised
       /\ IF r.raised # "none"
          THEN pc' = "aborted" /\ row_i' = row_i
          ELSE pc' = pc /\ row_i' = row_i + 1
    /\ UNCHANGED << searchVars, pipeline, annotations, image, images, img_i, funVars >>

\* The input list of the running notebook's table builder.
TableInput == IF pipeline = "search" THEN results ELSE annotations

\* df = pd.DataFrame(table_data) ... display(HTML(html))
FinishTable ==
    /\ pc = "build_table"
    /\ row_i > Len(TableInput)
    /\ pc' = "table_done"
    /\ UNCHANGED << searchVars, tableVars, funVars >>

NextTable ==
    \/ LoadImage \/ LoadImageSingle \/ EndLoadImages \/ StartTable
    \/ TableRowSearch \/ TableRowSingle \/ FinishTable

SpecTable == InitTable /\ [][NextTable]_vars

\* Both cell groups of the notebooks: the traversal, and the image loading
\* and table cells.
SpecNotebooks == (InitSearch \/ InitTable) /\ [][NextSearch \/ NextTable]_vars

(***************************************************************************)
(* What the log of requests says.                                          *)
(***************************************************************************)
Requested(url) == \E i \in 1..Len(http_log) : http_log[i].url = url

Ok(url) == \E i \in 1..Len(http_log) : http_log[i].url = url /\ http_log[i].status = 200

Failed(url) == \E i \in 1..Len(http_log) : http_log[i].url = url /\ http_log[i].status # 200

\* the listing a 200 response to url carried; << >> when there was none
BodyOf(url) ==
    IF Ok(url)
    THEN http_log[CHOOSE i \in 1..Len(http_log) :
                      http_log[i].url = url /\ http_log[i].status = 200].body
    ELSE << >>

Range(seq) == {seq[i] : i \in 1..Len(seq)}

Count(seq, e) == Cardinality({i \in 1..Len(seq) : seq[i] = e})

RECURSIVE Flatten(_)
Flatten(seqs) == IF Len(seqs) = 0 THEN << >> ELSE seqs[1] \o Flatten(Tail(seqs))

ImageSetIds == 1..NumImageSets
AnnotationSetIdsAll == 1..(NumImageSets * NumAnnotationSets)
ImageSetOf(annotation_set_id) == ((annotation_set_id - 1) \div NumAnnotationSets) + 1

InSearch == pc \in {"get_image_sets", "get_annotation_sets", "get_annotations", "search_done"}

(***************************************************************************)
(* C1.  A listing that fails (non-200) cuts its branch only: nothing is    *)
(* requested beneath it and the step that failed appends nothing to        *)
(* results; the later siblings are still requested; a failed image-sets    *)
(* listing ends the traversal with results empty.                          *)
(***************************************************************************)
C1_NoDescent ==
    InSearch =>
       /\ Failed(ImageSetsUrl) =>
             Len(http_log) = 1 /\ results = << >> /\ pc = "search_done"
       /\ \A s \in ImageSetIds :
             Failed(AnnotationSetsUrl(s)) =>
                \A a \in AnnotationSetIdsAll :
                   ImageSetOf(a) = s => ~Requested(AnnotationsUrl(a))
       /\ \A s \in ImageSetIds :
             Requested(AnnotationSetsUrl(s)) => s \in Range(BodyOf(ImageSetsUrl))
       /\ \A a \in AnnotationSetIdsAll :
             Requested(AnnotationsUrl(a)) =>
                a \in Range(BodyOf(AnnotationSetsUrl(ImageSetOf(a))))

C1_SiblingsRequested ==
    pc = "search_done" =>
       /\ \A s \in Range(BodyOf(ImageSetsUrl)) : Requested(AnnotationSetsUrl(s))
       /\ \A s \in ImageSetIds :
             \A a \in Range(BodyOf(AnnotationSetsUrl(s))) : Requested(AnnotationsUrl(a))

C1_FailureAppendsNothing ==
    (InSearch /\ Len(http_log') = Len(http_log) + 1
              /\ http_log'[Len(http_log')].status # 200) => results' = results

\* C1: a failed listing ends its own branch only (no request beneath it,
\* nothing appended), later siblings are requested, and a failed image-sets
\* listing ends the traversal with results empty.
C1_FailedBranchOnly ==
    /\ [](C1_NoDescent /\ C1_SiblingsRequested)
    /\ [][C1_FailureAppendsNothing]_vars

\* An image set's listing and an annotation set's listing have failed, and
\* what came after each of them was still requested and gave matches.
C1_Witness ==
    /\ pc = "search_done"
    /\ Failed(AnnotationSetsUrl(1)) /\ Ok(AnnotationSetsUrl(2))
    /\ Failed(AnnotationsUrl(NumAnnotationSets + 1))
    /\ Ok(AnnotationsUrl(NumAnnotationSets + 2))
    /\ results # << >>

(***************************************************************************)
(* C2.  When the traversal is over, results holds exactly the matching     *)
(* annotations of the annotation sets that were listed with success (they  *)
(* and their ancestors), each occurrence once, and no other annotation.    *)
(***************************************************************************)
SuccessfulSets ==
    {a \in AnnotationSetIdsAll :
        /\ Ok(ImageSetsUrl)
        /\ Ok(AnnotationSetsUrl(ImageSetOf(a)))
        /\ Ok(AnnotationsUrl(a))}

Occurrences(e) ==
    Cardinality({ak \in SuccessfulSets \X (1..AnnotationsPerSet) :
                    /\ ak[2] <= Len(BodyOf(AnnotationsUrl(ak[1])))
                    /\ BodyOf(AnnotationsUrl(ak[1]))[ak[2]] = e})

\* C2: at the end results holds each matching annotation of the successfully
\* listed annotation sets once per occurrence, and nothing else.
C2_ExactlyTheMatches ==
    pc = "search_done" =>
       /\ \A i \in 1..Len(results) : results[i] \in PoolSet
       /\ \A e \in PoolSet :
             Count(results, e) = IF annotation_contains_keyword(e, keyword)
                                 THEN Occurrences(e) ELSE 0

\* A match listed by two annotation sets is there twice, a set with a
\* non-matching annotation was listed, and one listing failed.
C2_Witness ==
    /\ pc = "search_done"
    /\ \E e \in PoolSet : Count(results, e) = 2
    /\ \E a \in SuccessfulSets :
          \E k \in 1..Len(BodyOf(AnnotationsUrl(a))) :
             ~annotation_contains_keyword(BodyOf(AnnotationsUrl(a))[k], keyword)
    /\ \E a \in AnnotationSetIdsAll : Failed(AnnotationsUrl(a))

(***************************************************************************)
(* C3.  Order.  results is the depth-first sequence of the matches (image  *)
(* sets in listing order, their annotation sets in listing order, their    *)
(* annotations in listing order); the table's rows are the rows of the     *)
(* annotations that got one, in the order of the input list.               *)
(***************************************************************************)
DepthFirstMatches ==
    LET sets == BodyOf(ImageSetsUrl) IN
    Flatten([i \in 1..Len(sets) |->
        LET asets == BodyOf(AnnotationSetsUrl(sets[i])) IN
        Flatten([j \in 1..Len(asets) |->
            SelectSeq(BodyOf(AnnotationsUrl(asets[j])),
                      LAMBDA e : annotation_contains_keyword(e, keyword))])])

InTable == pc \in {"build_table", "table_done", "aborted"} /\ row_i >= 1

\* the annotations before the loop's position that got a row (the search
\* notebook gives none to an annotation whose image is None)
Emitted ==
    SelectSeq(SubSeq(TableInput, 1, row_i - 1),
              LAMBDA e : pipeline = "single" \/ ~images[e.image_id].isNone)

ImageOfAnnotation(e) == IF pipeline = "single" THEN image ELSE images[e.image_id]

\* C3: results is in depth-first listing order and the table rows are in the
\* order of the input list.
C3_OrderPreserved ==
    /\ InSearch => results = DepthFirstMatches
    /\ InTable =>
          /\ table_data.Image =
                [k \in 1..Len(Emitted) |->
                    ImageCell(Emitted[k], ImageOfAnnotation(Emitted[k])).cell]
          /\ table_data.Title =
                [k \in 1..Len(Emitted) |-> FieldCell(Emitted[k].fields, "title")]
          /\ table_data.Tags =
                [k \in 1..Len(Emitted) |-> FieldCell(Emitted[k].fields, "tag")]
          /\ table_data.Notes =
                [k \in 1..Len(Emitted) |-> FieldCell(Emitted[k].fields, "note")]
          /\ table_data.LineColor =
                [k \in 1..Len(Emitted) |-> FieldCell(Emitted[k].fields, "line_color")]

\* The search table is complete with two different rows.
C3_Witness ==
    /\ pc = "table_done" /\ pipeline = "search"
    /\ Len(results) = 2 /\ Len(table_data.Title) = 2
    /\ table_data.Title[1] # table_data.Title[2]
    /\ table_data.Image[1] # table_data.Image[2]

(***************************************************************************)
(* C4.  annotation_contains_keyword is True exactly when the lower-cased   *)
(* keyword is a substring of the lower-cased form of a title value or of a *)
(* tag's term_label; the case of the keyword does not matter, and an       *)
(* annotation with neither field matches nothing.                          *)
(***************************************************************************)
HasMatchingValue(annotation, kw) ==
    LET fields == annotation.fields IN
    \/ /\ "title" \in DOMAIN fields
       /\ \E i \in 1..Len(fields["title"]) :
             StrIn(lower(kw), lower(fields["title"][i]))
    \/ /\ "tag" \in DOMAIN fields
       /\ \E i \in 1..Len(fields["tag"]) :
             StrIn(lower(kw), lower(fields["tag"][i].term_label))

C5_RowPerAnnotation ==
    pc = "table_done" => Len(table_data.Image) = Len(TableInput)

(***************************************************************************)
(* C6.  The table has the five columns, and after every iteration of the   *)
(* table loop, completed, skipped or aborted by an exception, the five     *)
(* column lists have the same length.                                      *)
(***************************************************************************)
C6_ColumnsSameLength ==
    pipeline # "none" =>
       /\ DOMAIN table_data = {"Image", "Title", "Tags", "Notes", "LineColor"}
       /\ Len(table_data.Title) = Len(table_data.Image)
       /\ Len(table_data.Tags) = Len(table_data.Image)
       /\ Len(table_data.Notes) = Len(table_data.Image)
       /\ Len(table_data.LineColor) = Len(table_data.Image)

\* A row was built, then crop_image raised on the next annotation.
C6_Witness ==
    /\ pc = "aborted" /\ raised = "ValueError"
    /\ row_i = 2
    /\ Len(table_data.Image) = 1
    /\ extract_polygon_points(TableInput[2].selector).raised = "none"

(***************************************************************************)
(* C7.  An iteration of the table loop that builds the row of an           *)
(* annotation puts '' in the column of every field the annotation does not *)
(* have and the joined values in the column of every field it has, and     *)
(* raises nothing.                                                         *)
(***************************************************************************)
ColumnOf(td, name) ==
    CASE name = "title" -> td.Title
      [] name = "tag" -> td.Tags
      [] name = "note" -> td.Notes
      [] OTHER -> td.LineColor

JoinedValues(fields, name) ==
    IF name = "tag"
    THEN Join(Br, [i \in 1..Len(fields[name]) |-> fields[name][i].term_label])
    ELSE Join(Br, fields[name])

C7_RowStep ==
    (pc = "build_table" /\ Len(table_data'.Image) = Len(table_data.Image) + 1) =>
       LET fields == TableInput[row_i].fields IN
       /\ raised' = "none"
       /\ \A name \in {"title", "tag", "note", "line_color"} :
             ColumnOf(table_data', name) =
                Append(ColumnOf(table_data, name),
                       IF name \in DOMAIN fields
                       THEN JoinedValues(fields, name) ELSE << >>)

MaskedOfArg == bitwise_and(arg.image, fillPoly(arg.image, arg.points))

\* C8: the crop is the tight bounding box of the non-zero pixels of the
\* masked image, last row and column included.
C8_TightBoundingBox ==
    (pc = "crop_done" /\ WhereY(MaskedOfArg) # {}) =>
       /\ ret.raised = "none"
       /\ ret.image = Slice(MaskedOfArg,
                            Min(WhereY(MaskedOfArg)), Max(WhereY(MaskedOfArg)) + 1,
                            Min(WhereX(MaskedOfArg)), Max(WhereX(MaskedOfArg)) + 1)

(***************************************************************************)
(* C9.  On an image without a zero pixel, an axis-aligned rectangle inside *)
(* the image is cropped to (max x - min x) columns by (max y - min y)      *)
(* rows, none of its pixels zero.                                          *)
(***************************************************************************)
PixelNonZero(img, r, k) == \E c \in 1..channel_count : img.px[r][k][c] # 0

AllNonZero(img) == \A r \in 1..img.h : \A k \in 1..img.w : PixelNonZero(img, r, k)

RectInside(points, img) ==
    /\ Len(points) = 4
    /\ points[1][2] = points[2][2] /\ points[2][1] = points[3][1]
    /\ points[3][2] = points[4][2] /\ points[4][1] = points[1][1]
    /\ \A i \in 1..4 : /\ points[i][1] \in 0..(img.w - 1)
                       /\ points[i][2] \in 0..(img.h - 1)

\* C9: a rectangle inside an image without zero pixels is cropped to
\* (max x - min x) by (max y - min y) pixels, all non-zero.
C9_RectangleCrop ==
    (pc = "crop_done" /\ AllNonZero(arg.image) /\ RectInside(arg.points, arg.image)) =>
       LET xs == {arg.points[i][1] : i \in 1..4}
           ys == {arg.points[i][2] : i \in 1..4}
       IN  /\ ret.raised = "none"
           /\ ret.image.w = Max(xs) - Min(xs)
           /\ ret.image.h = Max(ys) - Min(ys)
           /\ AllNonZero(ret.image)

\* The 20 x 20 white image and the square (0,0) (10,0) (10,10) (0,10).
C9_Witness ==
    /\ pc = "crop_done"
    /\ arg.image.h = 20 /\ arg.image.w = 20
    /\ arg.points = Rect(0, 0, 10, 10)
    /\ ret.raised = "none" /\ ret.image.h = 10 /\ ret.image.w = 10

(***************************************************************************)
(* C10.  crop_image raises EmptyRegionError when the masked image has no   *)
(* non-zero pixel, and never returns a buffer of zero height or width.     *)
(***************************************************************************)
C10_EmptyRegionError ==
    pc = "crop_done" =>
       /\ WhereY(MaskedOfArg) = {} => ret.raised = "EmptyRegionError"
       /\ ret.raised = "none" => ret.image.h > 0 /\ ret.image.w > 0


(***************************************************************************)
(* C11.  For a well-formed selector, whose coordinate pairs are separated  *)
(* by whitespace and may be followed by whitespace before the closing      *)
(* quote, extract_polygon_points returns one integer pair per token, the   *)
(* i-th pair being the truncated coordinates of the i-th token.            *)
(***************************************************************************)
PairsOf(tokens) == [i \in 1..Len(tokens) |-> << tokens[i].x, tokens[i].y >>]

\* C11: a well-formed selector yields exactly one integer pair per
\* whitespace-separated token, in token order.
C11_OnePairPerToken ==
    (pc = "extract_done" /\ arg.kind = "valid") =>
       /\ ret.raised = "none"
       /\ Len(ret.points) = Len(arg.tokens)
       /\ ret.points = PairsOf(arg.tokens)

(***************************************************************************)
(* C12.  A malformed selector makes extract_polygon_points fail with an    *)
(* explicit ParseError; it never returns a point list.                     *)
(***************************************************************************)
\* C12: for every malformed selector the call ends in ParseError and
\* returns no points.
C12_MalformedIsParseError ==
    (pc = "extract_done" /\ arg.kind = "malformed") =>
       /\ ret.raised = "ParseError"
       /\ ret.points = << >>

(***************************************************************************)
(* C13.  No request is retried within one run of the search notebook: a    *)
(* resource whose request failed is never requested again, in the          *)
(* traversal and in the image loading cell.                                *)
(***************************************************************************)
\* C13: in the request log of a run, a request for a resource that failed is
\* never followed by another request for the same resource.
C13_NoRetry ==
    (InSearch \/ pipeline = "search") =>
       \A i \in 1..Len(http_log), j \in 1..Len(http_log) :
          (i < j /\ http_log[i].url = http_log[j].url) => http_log[i].status = 200

(***************************************************************************)
(* C14.  The image loading cell requests only images that matches          *)
(* reference, keeps only their ids as keys of images, and never requests   *)
(* an image again whose id is already a key.                               *)
(***************************************************************************)
\* the image id of an image request (/images/{id}, info.json, JPEG)
ImageIdOf(url) == url[2]

ResultImageIds == {results[i].image_id : i \in 1..Len(results)}

ImageRequests(image_id) ==
    {i \in 1..Len(http_log) : ImageIdOf(http_log[i].url) = image_id}

C14_KeysAndRequests ==
    pipeline = "search" =>
       /\ DOMAIN images \subseteq ResultImageIds
       /\ \A i \in 1..Len(http_log) : ImageIdOf(http_log[i].url) \in ResultImageIds
       /\ results = << >> => http_log = << >>
       /\ \A id \in ResultImageIds :
             Cardinality({i \in 1..Len(http_log) : http_log[i].url = JpegUrl(id)}) <= 1

\* a step that issues a request for an image finds its id not yet a key
C14_LoadStep ==
    (pipeline = "search" /\ http_log' # http_log) =>
       \A i \in (Len(http_log) + 1)..Len(http_log') :
          ImageIdOf(http_log'[i].url) \notin DOMAIN images

\* C14: the keys of images are image ids of results, every image request is
\* for an image id of results (none when results is empty), and an image id
\* that is a key is not requested again: at most one JPEG request per image.
C14_LazyCachedLoading == []C14_KeysAndRequests /\ [][C14_LoadStep]_vars

\* Two matches of the same image, both iterations done, the image loaded by
\* the first and requested exactly once.
C14_Witness ==
    /\ pipeline = "search" /\ pc = "load_images"
    /\ Len(results) = 2 /\ img_i = 3
    /\ results[1].image_id = results[2].image_id
    /\ results[1].image_id \in DOMAIN images
    /\ ~images[results[1].image_id].isNone
    /\ Cardinality(ImageRequests(results[1].image_id)) = 3

(***************************************************************************)
(* C15.  After the image loading cell every annotation of results has its  *)
(* image id as a key of images, so the table builder's lookup              *)
(* images[annotation['image_id']] raises no KeyError.                      *)
(***************************************************************************)
\* C15: once image loading has finished, every result's image_id is a key of
\* images, and the table builder never ends in KeyError.
C15_EveryResultHasKey ==
    (pipeline = "search" /\ pc \in {"start_table", "build_table", "table_done", "aborted"}) =>
       /\ \A i \in 1..Len(results) : results[i].image_id \in DOMAIN images
       /\ raised # "KeyError"

(***************************************************************************)
(* C16.  In both notebooks the Image cell of a row is the crop of the      *)
(* full-size image of the annotation's own image_id, '' for a selector     *)
(* without '<polygon'.                                                     *)
(***************************************************************************)
\* the Image cell cropped from the full-size image of the annotation's own image
OwnImageCell(e) ==
    IF StrIn(PolygonTag, e.selector)
    THEN LET cr == crop_image(FullImage(e.image_id),
                              extract_polygon_points(e.selector).points)
         IN  IF cr.raised # "none" THEN << >>
             ELSE image_to_html(cr.image, 250).html
    ELSE << >>

\* C16: every row's Image cell is the crop of the full-size image of the
\* row's own image_id, and '' when the selector has no '<polygon'.
C16_CroppedFromOwnImage ==
    InTable =>
       \A k \in 1..Len(Emitted) :
          k <= Len(table_data.Image) => table_data.Image[k] = OwnImageCell(Emitted[k])

==========================================================================
